---- MODULE Spec2Model ----
(***************************************************************************)
(* State-machine model of the marketplace sale logic                       *)
(* (src/logics/impls/marketplace/marketplace_sale.rs).                     *)
(*                                                                         *)
(* One variable per storage field of the contract, plus the parts of the  *)
(* environment the handlers read or change: the token registry (PSP34)    *)
(* of each collection, the native funds of every account, and the call    *)
(* in flight.  Every handler is an operator from a state record to a      *)
(* result and the state it has written when it returns; the message       *)
(* dispatch keeps that state when the handler returns Ok and discards it  *)
(* when the handler returns Err or panics.                                 *)
(*                                                                         *)
(* Balance is u128 in the code.  The model keeps the type's shape at a    *)
(* reduced width: Balance is an unsigned integer of BalanceBits bits.     *)
(***************************************************************************)
EXTENDS Integers, Sequences, FiniteSets, TLC

\* ------------------------------------------------------------------ bounds

\* Width of the model's Balance type (u128 in the code).
BalanceBits == 21

\* make_offer is not called again once last_offer_id has reached this value.
MaxOffers == 2

\* deposit is not called when the caller's escrow balance would pass this value.
MaxEscrow == 650

U128Max == 2^BalanceBits - 1

\* ------------------------------------------------------- program constants

\* Denominator of the basis-point rates (marketplace_sale.rs:191, 195).
BasisPoints == 10000

\* Ceiling of the fee rates and the fee rate set at construction.
InitMaxFee == 1000
InitFee == 250

\* ---------------------------------------------------------------- domains

Accounts == {"admin", "creator", "buyer"}
\* The callers of the sale and escrow messages, and of the owner-only ones.
Traders == {"creator", "buyer"}
Admins == {"admin", "buyer"}
\* The token owners that grant the marketplace an allowance.
Sellers == {"creator"}
Contract == "marketplace"
Collections == {"c1", "c2"}
TokenIds == {1}
Keys == Collections \X TokenIds

Prices == {1000}
ListPrices == {800, 1000}
\* An attached payment whose product with the fee rate set at construction
\* exceeds the Balance type.
Huge == (U128Max \div InitFee) + 1
BuyValues == {800, 1000, 1200, Huge}
NestedValues == {1000}
DepositValues == {150, 500}
WithdrawAmounts == {100, 500, 600}
Quantities == {2}
OfferPrices == {100, 2^(BalanceBits - 1)}
Royalties == {500, 2000}
FundsBuyValues == {1000, Huge}
Fees == {1000, 2000}
Uris == {"ipfs1", "ipfs2"}
OverflowModes == {"panic", "wrap"}

\* Option<T>: None is the empty sequence, Some(x) the sequence of x.
None == <<>>
Some(x) == <<x>>
IsSome(o) == o # <<>>
Unwrap(o) == o[1]

NOT_ENTERED == 0
ENTERED == 1

\* ------------------------------------------------------------------ state

VARIABLES
    items,                  \* Data.items: (collection, token) -> Option<Item>
    registered_collections, \* Data.registered_collections: collection -> Option<RegisteredCollection>
    fee,                    \* Data.fee
    max_fee,                \* Data.max_fee
    market_fee_recipient,   \* Data.market_fee_recipient: Option<AccountId>
    deposit,                \* Data.deposit: account -> Balance (absent = 0)
    offer_items,            \* Data.offer_items: offer id -> Option<OfferItem>
    last_offer_id,          \* Data.last_offer_id
    owner,                  \* ownable::Data.owner
    status,                 \* reentrancy_guard::Data.status
    token_owner,            \* PSP34 owner_of of each collection: key -> Option<AccountId>
    token_approved,         \* PSP34 allowance(owner, marketplace, token) of each key
    balance,                \* native funds of every account and of the contract
    pc,                     \* "idle", or "in_transfer" while buy waits for PSP34 transfer
    frame,                  \* the locals of the buy in flight and the state it started from
    overflow,               \* what the build does on an unchecked overflow: "panic" or "wrap"
    last                    \* the call that returned last, with the state it started from

vars == <<items, registered_collections, fee, max_fee, market_fee_recipient,
          deposit, offer_items, last_offer_id, owner, status, token_owner,
          token_approved, balance, pc, frame, overflow, last>>

\* Owner of each collection contract, as OwnableRef::owner answers.
collection_owner == [c \in Collections |-> "creator"]

OfferIds == 1..(MaxOffers + 1)

\* The storage and the environment as one record.
State ==
    [items |-> items, registered_collections |-> registered_collections,
     fee |-> fee, max_fee |-> max_fee,
     market_fee_recipient |-> market_fee_recipient, deposit |-> deposit,
     offer_items |-> offer_items, last_offer_id |-> last_offer_id,
     owner |-> owner, status |-> status, token_owner |-> token_owner,
     token_approved |-> token_approved, balance |-> balance]

\* The state s becomes the current state.
Store(s) ==
    /\ items' = s.items
    /\ registered_collections' = s.registered_collections
    /\ fee' = s.fee
    /\ max_fee' = s.max_fee
    /\ market_fee_recipient' = s.market_fee_recipient
    /\ deposit' = s.deposit
    /\ offer_items' = s.offer_items
    /\ last_offer_id' = s.last_offer_id
    /\ owner' = s.owner
    /\ status' = s.status
    /\ token_owner' = s.token_owner
    /\ token_approved' = s.token_approved
    /\ balance' = s.balance

NoFrame == [active |-> FALSE]
NoCall == [op |-> "none", caller |-> "none", args |-> <<>>, res |-> "Ok",
           ret |-> None, nested |-> FALSE, pre |-> <<>>, wrote |-> <<>>]

Init ==
    /\ items = [k \in Keys |-> None]
    /\ registered_collections = [c \in Collections |-> None]
    /\ fee = InitFee
    /\ max_fee = InitMaxFee
    /\ market_fee_recipient = None
    /\ deposit = [a \in Accounts |-> 0]
    /\ offer_items = [i \in OfferIds |-> None]
    /\ last_offer_id = 0
    /\ owner = "admin"
    /\ status = NOT_ENTERED
    /\ token_owner = [k \in Keys |-> IF k = <<"c1", 1>> THEN Some("creator") ELSE None]
    /\ token_approved = [k \in Keys |-> FALSE]
    /\ balance = [a \in Accounts \cup {Contract} |->
                    IF a = "buyer" THEN Huge
                    ELSE IF a = "creator" THEN 150 ELSE 0]
    /\ pc = "idle"
    /\ frame = NoFrame
    /\ overflow \in OverflowModes
    /\ last = NoCall

\* The state after construction of a build with overflow checks.
InitChecked == Init /\ overflow = "panic"

\* ---------------------------------------------------------------- results

\* What a handler returns: its result, its return value, and the state it
\* has written at that point.
Ok(s) == [res |-> "Ok", ret |-> None, st |-> s]
OkRet(s, v) == [res |-> "Ok", ret |-> Some(v), st |-> s]
Err(e, s) == [res |-> e, ret |-> None, st |-> s]
\* A panic (unwrap of None, arithmetic overflow with overflow checks).
Trap(s) == [res |-> "Trap", ret |-> None, st |-> s]

\* --------------------------------------------------------------- Internal

\* Option<u128> arithmetic of the split computation.
checked_mul(a, b) == IF b # 0 /\ a > U128Max \div b THEN None ELSE Some(a * b)
checked_sub(a, b) == IF a < b THEN None ELSE Some(a - b)
unwrap_or_default(o) == IF IsSome(o) THEN Unwrap(o) ELSE 0

\* Unchecked u128 multiplication: the build decides between a panic
\* (overflow checks on) and the wrapped product (overflow checks off).
mul_u128(a, b, mode) ==
    IF a * b <= U128Max THEN Some(a * b)
    ELSE IF mode = "panic" THEN None
    ELSE Some((a * b) % (U128Max + 1))

\* Unchecked u128 addition, as mul_u128.
add_u128(a, b, mode) ==
    IF a + b <= U128Max THEN Some(a + b)
    ELSE IF mode = "panic" THEN None
    ELSE Some((a + b) % (U128Max + 1))

get_deposit_internal(s, account_id) == s.deposit[account_id]

is_token_listed(s, contract_address, token_id) ==
    IsSome(s.items[<<contract_address, token_id>>])

\* A fee check that lets every rate pass.
check_fee_none(f, max) == "Ok"

check_fee(f, max) == IF f <= max THEN "Ok" ELSE "FeeTooHigh"

check_price(transferred_value, price) ==
    IF transferred_value >= price THEN "Ok" ELSE "BadBuyValue"

check_token_owner(s, caller, contract_address, token_id) ==
    IF ~IsSome(s.registered_collections[contract_address])
    THEN "NotRegisteredContract"
    ELSE LET o == s.token_owner[<<contract_address, token_id>>] IN
         IF ~IsSome(o) THEN "TokenDoesNotExist"
         ELSE IF caller = Unwrap(o) THEN "Ok" ELSE "NotOwner"

\* An allowance check that lets every caller pass.
check_token_allowance_none(s, caller, contract_address, token_id) == "Ok"

check_token_allowance(s, caller, contract_address, token_id) ==
    IF s.token_approved[<<contract_address, token_id>>]
          /\ s.token_owner[<<contract_address, token_id>>] = Some(caller)
    THEN "Ok" ELSE "TokenNotApproved"

\* Self::env().transfer(to, amount): the contract pays amount to `to`.  The
\* host refuses when the contract's funds do not cover it; `accepted` is the
\* host's answer otherwise.
env_transfer(s, to, amount, accepted) ==
    IF accepted /\ s.balance[Contract] >= amount
    THEN [ok |-> TRUE,
          st |-> [s EXCEPT !.balance = [@ EXCEPT ![Contract] = @ - amount,
                                                 ![to] = @ + amount]]]
    ELSE [ok |-> FALSE, st |-> s]

\* The payment attached to a payable message reaches the contract before the
\* handler runs.
attach_value(s, caller, value) ==
    [s EXCEPT !.balance = [@ EXCEPT ![caller] = @ - value,
                                    ![Contract] = @ + value]]

\* PSP34Ref::transfer(&contract_address, to, token_id, data), called by the
\* marketplace: the registry moves the token when it exists and the
\* marketplace holds the owner's allowance, and clears that allowance;
\* `accepted` is the registry's answer otherwise.
psp34_transfer(s, contract_address, token_id, to, accepted) ==
    LET k == <<contract_address, token_id>> IN
    IF accepted /\ IsSome(s.token_owner[k]) /\ s.token_approved[k]
    THEN [ok |-> TRUE,
          st |-> [s EXCEPT !.token_owner[k] = Some(to),
                           !.token_approved[k] = FALSE]]
    ELSE [ok |-> FALSE, st |-> s]

\* The first step of transfer_token that the environment lets fail.
Outcomes == {"ok", "token_fails", "owner_payment_fails",
             "marketplace_payment_fails", "author_payment_fails"}

\* transfer_token paying the previous owner before it moves the token.
transfer_token_pays_first(s, contract_address, token_id, tok_owner, buyer, seller_fee, marketplace_fee, royalty_receiver, author_royalty, out) ==
    LET p1 == env_transfer(s, tok_owner, seller_fee,
                           out # "owner_payment_fails") IN
    IF ~p1.ok THEN Err("TransferToOwnerFailed", p1.st)
    ELSE
    LET x == psp34_transfer(p1.st, contract_address, token_id, buyer,
                            out # "token_fails") IN
    IF ~x.ok THEN Err("UnableToTransferToken", x.st)
    ELSE IF ~IsSome(x.st.market_fee_recipient) THEN Trap(x.st)
    ELSE
    LET p2 == env_transfer(x.st, Unwrap(x.st.market_fee_recipient),
                           marketplace_fee, out # "marketplace_payment_fails") IN
    IF ~p2.ok THEN Err("TransferToMarketplaceFailed", p2.st)
    ELSE
    LET p3 == env_transfer(p2.st, royalty_receiver, author_royalty,
                           out # "author_payment_fails") IN
    IF ~p3.ok THEN Err("TransferToAuthorFailed", p3.st)
    ELSE Ok(p3.st)

transfer_token(s, contract_address, token_id, tok_owner, buyer, seller_fee, marketplace_fee, royalty_receiver, author_royalty, out) ==
    LET x == psp34_transfer(s, contract_address, token_id, buyer,
                            out # "token_fails") IN
    IF ~x.ok THEN Err("UnableToTransferToken", x.st)
    ELSE
    LET p1 == env_transfer(x.st, tok_owner, seller_fee,
                           out # "owner_payment_fails") IN
    IF ~p1.ok THEN Err("TransferToOwnerFailed", p1.st)
    ELSE IF ~IsSome(p1.st.market_fee_recipient) THEN Trap(p1.st)
    ELSE
    LET p2 == env_transfer(p1.st, Unwrap(p1.st.market_fee_recipient),
                           marketplace_fee, out # "marketplace_payment_fails") IN
    IF ~p2.ok THEN Err("TransferToMarketplaceFailed", p2.st)
    ELSE
    LET p3 == env_transfer(p2.st, royalty_receiver, author_royalty,
                           out # "author_payment_fails") IN
    IF ~p3.ok THEN Err("TransferToAuthorFailed", p3.st)
    ELSE Ok(p3.st)

\* -------------------------------------------------------- MarketplaceSale

list(s, caller, contract_address, token_id, price) ==
    LET r1 == check_token_owner(s, caller, contract_address, token_id)
        r2 == check_token_allowance(s, caller, contract_address, token_id)
    IN
    IF r1 # "Ok" THEN Err(r1, s)
    ELSE IF r2 # "Ok" THEN Err(r2, s)
    ELSE Ok([s EXCEPT !.items[<<contract_address, token_id>>] =
                          Some([owner |-> caller, price |-> price])])

\* unlist without the check of the caller.
unlist_by_anyone(s, caller, contract_address, token_id) ==
    IF ~is_token_listed(s, contract_address, token_id)
    THEN Err("ItemNotListedForSale", s)
    ELSE Ok([s EXCEPT !.items[<<contract_address, token_id>>] = None])

unlist(s, caller, contract_address, token_id) ==
    LET r1 == check_token_owner(s, caller, contract_address, token_id) IN
    IF ~is_token_listed(s, contract_address, token_id)
    THEN Err("ItemNotListedForSale", s)
    ELSE IF r1 # "Ok" THEN Err(r1, s)
    ELSE Ok([s EXCEPT !.items[<<contract_address, token_id>>] = None])

\* value * bps / 10_000 of the split computation.
bps_share(value, bps) ==
    unwrap_or_default(checked_mul(value, bps)) \div BasisPoints

\* A seller share of the whole value, the fee and the royalty not taken off.
seller_share_whole(value, marketplace_fee, author_royalty) == value

\* value - marketplace_fee - author_royalty of the split computation.
seller_share(value, marketplace_fee, author_royalty) ==
    unwrap_or_default(
        checked_sub(unwrap_or_default(checked_sub(value, marketplace_fee)),
                    author_royalty))

\* The split taken of the listed price.
split_basis_price(value, price) == price

\* The value buy hands to the split computation and to transfer_token.
split_basis(value, price) == value

\* A guard that lets every call in.
non_reentrant_open(s) == FALSE

\* #[modifiers(non_reentrant)]: the guard refuses to enter while a guarded
\* call is in flight.
non_reentrant_rejects(s) == s.status = ENTERED

\* buy, from the guard to the call of transfer_token: the checks and the
\* split.  Returns the arguments of transfer_token.
buy_enter(s, caller, contract_address, token_id, value) ==
    IF non_reentrant_rejects(s) THEN Err("ReentrantCall", s)
    ELSE
    LET s1 == [s EXCEPT !.status = ENTERED]
        failed(e) == Err(e, [s1 EXCEPT !.status = NOT_ENTERED])
        item == s1.items[<<contract_address, token_id>>]
        tok == s1.token_owner[<<contract_address, token_id>>]
        collection == s1.registered_collections[contract_address]
    IN
    IF ~IsSome(item) THEN failed("ItemNotListedForSale")
    ELSE IF ~IsSome(tok) THEN failed("TokenDoesNotExist")
    ELSE IF Unwrap(tok) = caller THEN failed("AlreadyOwner")
    ELSE IF check_price(value, Unwrap(item).price) # "Ok"
    THEN failed(check_price(value, Unwrap(item).price))
    ELSE IF ~IsSome(collection) THEN failed("NotRegisteredContract")
    ELSE
    LET basis == split_basis(value, Unwrap(item).price)
        marketplace_fee == bps_share(basis, s1.fee)
        author_royalty == bps_share(basis, Unwrap(collection).royalty)
        seller_fee == seller_share(basis, marketplace_fee, author_royalty)
    IN OkRet(s1, [token_owner |-> Unwrap(tok), buyer |-> caller,
                  seller_fee |-> seller_fee,
                  marketplace_fee |-> marketplace_fee,
                  royalty_receiver |-> Unwrap(collection).royalty_receiver,
                  author_royalty |-> author_royalty,
                  token_price |-> basis])

\* buy removing the listing once transfer_token has succeeded.
buy_finish_delists(s, contract_address, token_id, l, out) ==
    LET r == transfer_token(s, contract_address, token_id, l.token_owner,
                            l.buyer, l.seller_fee, l.marketplace_fee,
                            l.royalty_receiver, l.author_royalty, out)
    IN IF r.res = "Trap" THEN r
       ELSE IF r.res # "Ok"
       THEN [r EXCEPT !.st = [r.st EXCEPT !.status = NOT_ENTERED]]
       ELSE [r EXCEPT !.st = [r.st EXCEPT
                                !.status = NOT_ENTERED,
                                !.items[<<contract_address, token_id>>] = None]]

\* buy, from the call of transfer_token to the return: the guard is left on
\* every return of the body.
buy_finish(s, contract_address, token_id, l, out) ==
    LET r == transfer_token(s, contract_address, token_id, l.token_owner,
                            l.buyer, l.seller_fee, l.marketplace_fee,
                            l.royalty_receiver, l.author_royalty, out)
    IN IF r.res = "Trap" THEN r
       ELSE [r EXCEPT !.st = [r.st EXCEPT !.status = NOT_ENTERED]]

\* buy as one step.
buy(s, caller, contract_address, token_id, value, out) ==
    LET e == buy_enter(s, caller, contract_address, token_id, value) IN
    IF e.res # "Ok" THEN e
    ELSE buy_finish(e.st, contract_address, token_id, Unwrap(e.ret), out)

\* A lookup that never finds the collection.
is_registered_never(s, contract_address) == FALSE

\* registered_collections.get(&contract_address).is_some()
is_registered(s, contract_address) ==
    IsSome(s.registered_collections[contract_address])

register(s, caller, contract_address, royalty_receiver, royalty, marketplace_ipfs) ==
    IF check_fee(royalty, s.max_fee) # "Ok"
    THEN Err(check_fee(royalty, s.max_fee), s)
    ELSE IF s.owner # caller /\ collection_owner[contract_address] # caller
    THEN Err("NotOwner", s)
    ELSE IF is_registered(s, contract_address)
    THEN Err("ContractAlreadyRegistered", s)
    ELSE Ok([s EXCEPT !.registered_collections[contract_address] =
                Some([royalty_receiver |-> royalty_receiver,
                      royalty |-> royalty,
                      marketplace_ipfs |-> marketplace_ipfs])])

\* #[modifiers(only_owner)]
only_owner(s, caller) == IF s.owner = caller THEN "Ok" ELSE "CallerIsNotOwner"

set_marketplace_fee(s, caller, f) ==
    IF only_owner(s, caller) # "Ok" THEN Err(only_owner(s, caller), s)
    ELSE IF check_fee(f, s.max_fee) # "Ok" THEN Err(check_fee(f, s.max_fee), s)
    ELSE Ok([s EXCEPT !.fee = f])

\* set_contract_metadata without the owner modifier.
set_contract_metadata_open(s, caller, contract_address, ipfs) ==
    LET collection == s.registered_collections[contract_address] IN
    IF ~IsSome(collection) THEN Err("NotRegisteredContract", s)
    ELSE Ok([s EXCEPT !.registered_collections[contract_address] =
                Some([royalty_receiver |-> Unwrap(collection).royalty_receiver,
                      royalty |-> Unwrap(collection).royalty,
                      marketplace_ipfs |-> ipfs])])

set_contract_metadata(s, caller, contract_address, ipfs) ==
    LET collection == s.registered_collections[contract_address] IN
    IF only_owner(s, caller) # "Ok" THEN Err(only_owner(s, caller), s)
    ELSE IF ~IsSome(collection) THEN Err("NotRegisteredContract", s)
    ELSE Ok([s EXCEPT !.registered_collections[contract_address] =
                Some([royalty_receiver |-> Unwrap(collection).royalty_receiver,
                      royalty |-> Unwrap(collection).royalty,
                      marketplace_ipfs |-> ipfs])])

set_fee_recipient(s, caller, fee_recipient) ==
    IF only_owner(s, caller) # "Ok" THEN Err(only_owner(s, caller), s)
    ELSE Ok([s EXCEPT !.market_fee_recipient = Some(fee_recipient)])

\* deposit: s already holds the attached value.
deposit_(s, caller, value, mode) ==
    LET current_balance == get_deposit_internal(s, caller)
        new_balance == add_u128(value, current_balance, mode)
    IN IF ~IsSome(new_balance) THEN Trap(s)
       ELSE Ok([s EXCEPT !.deposit[caller] = Unwrap(new_balance)])

\* withdraw refusing a withdrawal of the whole balance.
withdraw_strict(s, caller, amount, accepted) ==
    LET current_balance == get_deposit_internal(s, caller) IN
    IF current_balance <= amount THEN Err("BalanceInsufficient", s)
    ELSE
    LET s1 == [s EXCEPT !.deposit[caller] = current_balance - amount]
        p == env_transfer(s1, caller, amount, accepted)
    IN IF ~p.ok THEN Err("TransferToOwnerFailed", p.st) ELSE Ok(p.st)

withdraw(s, caller, amount, accepted) ==
    LET current_balance == get_deposit_internal(s, caller) IN
    IF current_balance < amount THEN Err("BalanceInsufficient", s)
    ELSE
    LET s1 == [s EXCEPT !.deposit[caller] = current_balance - amount]
        p == env_transfer(s1, caller, amount, accepted)
    IN IF ~p.ok THEN Err("TransferToOwnerFailed", p.st) ELSE Ok(p.st)

\* cancel_offer without the bidder check.
cancel_offer_by_anyone(s, caller, offer_id) ==
    LET offer == s.offer_items[offer_id] IN
    IF ~IsSome(offer) THEN Trap(s)
    ELSE Ok([s EXCEPT !.offer_items[offer_id] = None])

cancel_offer(s, caller, offer_id) ==
    LET offer == s.offer_items[offer_id] IN
    IF ~IsSome(offer) THEN Trap(s)
    ELSE IF Unwrap(offer).bidder_id # caller THEN Err("NotOwner", s)
    ELSE Ok([s EXCEPT !.offer_items[offer_id] = None])

\* make_offer taking the offered amount off the bidder's escrow balance.
make_offer_reserving(s, caller, contract_address, token_id, quantity, price_per_item, extra, mode) ==
    LET total_amount == mul_u128(quantity, price_per_item, mode)
        dep == get_deposit_internal(s, caller)
        current_offer_id == s.last_offer_id + 1
    IN
    IF ~IsSome(total_amount) THEN Trap(s)
    ELSE IF dep < Unwrap(total_amount) THEN Err("BalanceInsufficient", s)
    ELSE OkRet([s EXCEPT !.last_offer_id = current_offer_id,
                         !.deposit[caller] = dep - Unwrap(total_amount),
                         !.offer_items[current_offer_id] =
                            Some([bidder_id |-> caller,
                                  contract_address |-> contract_address,
                                  token_id |-> token_id,
                                  quantity |-> quantity,
                                  price_per_item |-> price_per_item,
                                  extra |-> extra])],
               1)

\* make_offer storing the offer under the lowest id that is free.
make_offer_reusing(s, caller, contract_address, token_id, quantity, price_per_item, extra, mode) ==
    LET total_amount == mul_u128(quantity, price_per_item, mode)
        dep == get_deposit_internal(s, caller)
        current_offer_id ==
            CHOOSE i \in OfferIds :
                /\ ~IsSome(s.offer_items[i])
                /\ \A j \in OfferIds : j < i => IsSome(s.offer_items[j])
    IN
    IF ~IsSome(total_amount) THEN Trap(s)
    ELSE IF dep < Unwrap(total_amount) THEN Err("BalanceInsufficient", s)
    ELSE OkRet([s EXCEPT !.last_offer_id = current_offer_id,
                         !.offer_items[current_offer_id] =
                            Some([bidder_id |-> caller,
                                  contract_address |-> contract_address,
                                  token_id |-> token_id,
                                  quantity |-> quantity,
                                  price_per_item |-> price_per_item,
                                  extra |-> extra])],
               1)

\* The id make_offer returns.
offer_return(current_offer_id) == 1

make_offer(s, caller, contract_address, token_id, quantity, price_per_item, extra, mode) ==
    LET total_amount == mul_u128(quantity, price_per_item, mode)
        dep == get_deposit_internal(s, caller)
        current_offer_id == s.last_offer_id + 1
    IN
    IF ~IsSome(total_amount) THEN Trap(s)
    ELSE IF dep < Unwrap(total_amount) THEN Err("BalanceInsufficient", s)
    ELSE OkRet([s EXCEPT !.last_offer_id = current_offer_id,
                         !.offer_items[current_offer_id] =
                            Some([bidder_id |-> caller,
                                  contract_address |-> contract_address,
                                  token_id |-> token_id,
                                  quantity |-> quantity,
                                  price_per_item |-> price_per_item,
                                  extra |-> extra])],
               offer_return(current_offer_id))

\* A dispatch that keeps what the handler wrote whatever it returns.
dispatch_keeps(s, r) == r.st

\* An ink! message that returns Err, or panics, reverts: the state it started
\* from stays, the attached payment included.  A message that returns Ok
\* keeps what the handler wrote.
dispatch(s, r) == IF r.res = "Ok" THEN r.st ELSE s

get_offer_active(s, caller, offer_id, mode) ==
    LET offer == s.offer_items[offer_id] IN
    IF ~IsSome(offer) THEN OkRet(s, FALSE)
    ELSE
    LET total_amount == mul_u128(Unwrap(offer).quantity,
                                 Unwrap(offer).price_per_item, mode)
    IN IF ~IsSome(total_amount) THEN Trap(s)
       ELSE OkRet(s, get_deposit_internal(s, caller) >= Unwrap(total_amount))

accept_offer(s, caller, offer_id, token_id) ==
    IF ~IsSome(s.offer_items[offer_id]) THEN Trap(s) ELSE Ok(s)

fulfill_offer(s, caller, offer_id, token_id) == Ok(s)

\* ---------------------------------------------------------------- actions

CallRec(op, caller, args, r, nested, pre) ==
    [op |-> op, caller |-> caller, args |-> args, res |-> r.res,
     ret |-> r.ret, nested |-> nested, pre |-> pre, wrote |-> r.st]

\* A top-level message that runs to its return in one step.
Message(op, caller, args, r) ==
    /\ Store(dispatch(State, r))
    /\ last' = CallRec(op, caller, args, r, FALSE, State)
    /\ UNCHANGED <<pc, frame, overflow>>

List(caller, c, t, price) ==
    /\ pc = "idle"
    /\ Message("list", caller, [collection |-> c, token |-> t, price |-> price],
               list(State, caller, c, t, price))

Unlist(caller, c, t) ==
    /\ pc = "idle"
    /\ Message("unlist", caller, [collection |-> c, token |-> t],
               unlist(State, caller, c, t))

\* A top-level buy up to its call of the token registry.  A buy that fails
\* before that call returns here.
BuyBegin(caller, c, t, value) ==
    /\ pc = "idle"
    /\ balance[caller] >= value
    /\ LET args == [collection |-> c, token |-> t, value |-> value,
                    out |-> "none"]
           e == buy_enter(attach_value(State, caller, value), caller, c, t, value)
       IN IF e.res # "Ok"
          THEN Message("buy", caller, args, e)
          ELSE /\ Store(e.st)
               /\ pc' = "in_transfer"
               /\ frame' = [active |-> TRUE, caller |-> caller, args |-> args,
                            locals |-> Unwrap(e.ret), pre |-> State]
               /\ last' = [NoCall EXCEPT !.op = "buy_in_flight"]
               /\ UNCHANGED overflow

\* The token registry returns to the buy in flight, which pays and returns.
BuyEnd(out) ==
    /\ pc = "in_transfer"
    /\ LET r == buy_finish(State, frame.args.collection, frame.args.token,
                           frame.locals, out)
       IN /\ Store(dispatch(frame.pre, r))
          /\ last' = CallRec("buy", frame.caller,
                             [frame.args EXCEPT !.out = out], r, FALSE,
                             frame.pre)
    /\ pc' = "idle"
    /\ frame' = NoFrame
    /\ UNCHANGED overflow

\* While the token registry runs, it (or a contract it calls) calls buy.
NestedBuy(caller, c, t, value, out) ==
    /\ pc = "in_transfer"
    /\ balance[caller] >= value
    /\ LET r == buy(attach_value(State, caller, value), caller, c, t, value, out)
       IN /\ Store(dispatch(State, r))
          /\ last' = CallRec("buy", caller,
                             [collection |-> c, token |-> t, value |-> value,
                              out |-> out],
                             r, TRUE, State)
    /\ UNCHANGED <<pc, frame, overflow>>

Register(caller, c, receiver, royalty, uri) ==
    /\ pc = "idle"
    /\ Message("register", caller,
               [collection |-> c, royalty_receiver |-> receiver,
                royalty |-> royalty, marketplace_ipfs |-> uri],
               register(State, caller, c, receiver, royalty, uri))

SetMarketplaceFee(caller, f) ==
    /\ pc = "idle"
    /\ Message("set_marketplace_fee", caller, [fee |-> f],
               set_marketplace_fee(State, caller, f))

SetContractMetadata(caller, c, uri) ==
    /\ pc = "idle"
    /\ Message("set_contract_metadata", caller, [collection |-> c, ipfs |-> uri],
               set_contract_metadata(State, caller, c, uri))

SetFeeRecipient(caller, a) ==
    /\ pc = "idle"
    /\ Message("set_fee_recipient", caller, [fee_recipient |-> a],
               set_fee_recipient(State, caller, a))

Deposit(caller, value) ==
    /\ pc = "idle"
    /\ balance[caller] >= value
    /\ deposit[caller] + value <= MaxEscrow
    /\ Message("deposit", caller, [value |-> value],
               deposit_(attach_value(State, caller, value), caller, value,
                        overflow))

Withdraw(caller, amount, accepted) ==
    /\ pc = "idle"
    /\ Message("withdraw", caller, [amount |-> amount, accepted |-> accepted],
               withdraw(State, caller, amount, accepted))

MakeOffer(caller, c, t, quantity, price_per_item) ==
    /\ pc = "idle"
    /\ last_offer_id < MaxOffers
    /\ Message("make_offer", caller,
               [collection |-> c, token |-> t, quantity |-> quantity,
                price_per_item |-> price_per_item],
               make_offer(State, caller, c, t, quantity, price_per_item, "",
                          overflow))

CancelOffer(caller, offer_id) ==
    /\ pc = "idle"
    /\ Message("cancel_offer", caller, [offer_id |-> offer_id],
               cancel_offer(State, caller, offer_id))

GetOfferActive(caller, offer_id) ==
    /\ pc = "idle"
    /\ Message("get_offer_active", caller, [offer_id |-> offer_id],
               get_offer_active(State, caller, offer_id, overflow))

AcceptOffer(caller, offer_id, t) ==
    /\ pc = "idle"
    /\ Message("accept_offer", caller, [offer_id |-> offer_id, token |-> t],
               accept_offer(State, caller, offer_id, t))

FulfillOffer(caller, offer_id, t) ==
    /\ pc = "idle"
    /\ Message("fulfill_offer", caller, [offer_id |-> offer_id, token |-> t],
               fulfill_offer(State, caller, offer_id, t))

\* The owner of a token grants the marketplace the allowance for it, in the
\* token registry.
Approve(a, c, t) ==
    /\ pc = "idle"
    /\ token_owner[<<c, t>>] = Some(a)
    /\ ~token_approved[<<c, t>>]
    /\ token_approved' = [token_approved EXCEPT ![<<c, t>>] = TRUE]
    /\ last' = [NoCall EXCEPT !.op = "approve"]
    /\ UNCHANGED <<items, registered_collections, fee, max_fee,
                   market_fee_recipient, deposit, offer_items, last_offer_id,
                   owner, status, token_owner, balance, pc, frame, overflow>>

\* The owner of a token burns it in the token registry, which then reports
\* no owner for it.
Burn(a, c, t) ==
    /\ pc = "idle"
    /\ token_owner[<<c, t>>] = Some(a)
    /\ token_owner' = [token_owner EXCEPT ![<<c, t>>] = None]
    /\ token_approved' = [token_approved EXCEPT ![<<c, t>>] = FALSE]
    /\ last' = [NoCall EXCEPT !.op = "burn"]
    /\ UNCHANGED <<items, registered_collections, fee, max_fee,
                   market_fee_recipient, deposit, offer_items, last_offer_id,
                   owner, status, balance, pc, frame, overflow>>

\* The sale messages, with every message of the escrow ledger and the offer
\* book at one input each.
Next ==
    \/ \E a \in Traders, c \in Collections, t \in TokenIds, p \in Prices :
          List(a, c, t, p)
    \/ \E a \in Traders, c \in Collections, t \in TokenIds : Unlist(a, c, t)
    \/ \E a \in Traders, c \in Collections, t \in TokenIds, v \in BuyValues :
          BuyBegin(a, c, t, v)
    \/ \E out \in Outcomes : BuyEnd(out)
    \/ \E a \in Traders, v \in NestedValues, out \in Outcomes :
          NestedBuy(a, "c1", 1, v, out)
    \/ \E a \in Accounts, c \in Collections, r \in Royalties :
          Register(a, c, "creator", r, "ipfs1")
    \/ \E a \in Admins, f \in Fees : SetMarketplaceFee(a, f)
    \/ \E a \in Admins, c \in Collections :
          SetContractMetadata(a, c, "ipfs2")
    \/ \E a \in Admins : SetFeeRecipient(a, "admin")
    \/ Deposit("buyer", 500)
    \/ \E ok \in BOOLEAN : Withdraw("buyer", 500, ok)
    \/ MakeOffer("buyer", "c1", None, 2, 100)
    \/ CancelOffer("buyer", 1)
    \/ GetOfferActive("buyer", 1)
    \/ AcceptOffer("buyer", 1, 1)
    \/ FulfillOffer("buyer", 1, 1)
    \/ \E a \in Sellers, c \in Collections, t \in TokenIds : Approve(a, c, t)

Spec == InitChecked /\ [][Next]_vars

\* The messages of the escrow ledger and the offer book.
NextEscrow ==
    \/ \E a \in Traders, v \in DepositValues : Deposit(a, v)
    \/ \E a \in Traders, n \in WithdrawAmounts, ok \in BOOLEAN :
          Withdraw(a, n, ok)
    \/ \E a \in Traders, q \in Quantities, p \in OfferPrices :
          MakeOffer(a, "c1", None, q, p)
    \/ \E a \in Traders, i \in OfferIds : CancelOffer(a, i)
    \/ \E a \in Traders, i \in OfferIds : GetOfferActive(a, i)
    \/ \E a \in Traders, i \in OfferIds, t \in TokenIds : AcceptOffer(a, i, t)
    \/ \E a \in Traders, i \in OfferIds, t \in TokenIds : FulfillOffer(a, i, t)

SpecEscrow == Init /\ [][NextEscrow]_vars

\* The messages of the listing book, with the registrations, the token
\* registry's allowances and burns, and the purchases that move a listed
\* token to another owner.
NextListing ==
    \/ \E a \in Traders, c \in Collections, t \in TokenIds, p \in ListPrices :
          List(a, c, t, p)
    \/ \E a \in Traders, c \in Collections, t \in TokenIds : Unlist(a, c, t)
    \/ \E a \in Accounts, c \in Collections, r \in Royalties :
          Register(a, c, "creator", r, "ipfs1")
    \/ \E a \in Traders, c \in Collections, t \in TokenIds : Approve(a, c, t)
    \/ \E a \in Traders, c \in Collections, t \in TokenIds : Burn(a, c, t)
    \/ \E c \in Collections, t \in TokenIds : BuyBegin("buyer", c, t, 1000)
    \/ \E out \in {"ok", "token_fails"} : BuyEnd(out)
    \/ SetFeeRecipient("admin", "admin")

SpecListing == InitChecked /\ [][NextListing]_vars

\* The messages that move funds or escrow balances, every trader using the
\* escrow ledger, around the sale of one token at the highest rates that
\* can be stored, with the other messages at one input each.
NextFunds ==
    \/ \E a \in Traders : Deposit(a, 500)
    \/ \E a \in Traders, ok \in BOOLEAN : Withdraw(a, 500, ok)
    \/ MakeOffer("buyer", "c1", None, 2, 100)
    \/ \E a \in Traders : CancelOffer(a, 1)
    \/ AcceptOffer("creator", 1, 1)
    \/ FulfillOffer("creator", 1, 1)
    \/ Register("creator", "c1", "creator", InitMaxFee, "ipfs1")
    \/ SetMarketplaceFee("admin", InitMaxFee)
    \/ SetFeeRecipient("admin", "admin")
    \/ SetContractMetadata("admin", "c1", "ipfs2")
    \/ Approve("creator", "c1", 1)
    \/ List("creator", "c1", 1, 1000)
    \/ Unlist("creator", "c1", 1)
    \/ \E v \in FundsBuyValues : BuyBegin("buyer", "c1", 1, v)
    \/ \E out \in Outcomes : BuyEnd(out)

SpecFunds == Init /\ [][NextFunds]_vars


\* ----------------------------------------------------------------- claims

\* The results with which buy fails at the token transfer or at a payment.
BuyFailures == {"UnableToTransferToken", "TransferToOwnerFailed",
                "TransferToMarketplaceFailed", "TransferToAuthorFailed", "Trap"}

\* C1: while a buy is in flight, a nested call of buy is rejected by the
\* reentrancy guard and leaves the storage, the token registry and every
\* account's funds as they were when it was made.
C1_NestedBuyRejected ==
    (last.op = "buy" /\ last.nested) =>
        /\ last.res = "ReentrantCall"
        /\ State = last.pre

\* A nested buy was rejected whose caller is not the owner and pays the price
\* of the listed token.
C1_Witness ==
    /\ pc = "in_transfer"
    /\ last.op = "buy" /\ last.nested /\ last.res = "ReentrantCall"
    /\ IsSome(items[<<"c1", 1>>])
    /\ token_owner[<<"c1", 1>>] # Some(last.caller)
    /\ last.args.value >= Unwrap(items[<<"c1", 1>>]).price
    /\ token_approved[<<"c1", 1>>]
    /\ IsSome(market_fee_recipient)

\* C2: a buy that fails at the token transfer or at one of the three
\* payments (an unset fee recipient included) leaves the listings, the
\* registered collections, the escrow balances, the offers, the token
\* ownership and every account's funds as they were before the call.
C2_FailedBuyChangesNothing ==
    (last.op = "buy" /\ ~last.nested /\ last.res \in BuyFailures) =>
        State = last.pre

\* A buy failed at its last payment, after the token transfer and two
\* payments, with an escrow balance and an offer stored.
C2_Witness ==
    /\ last.op = "buy" /\ ~last.nested
    /\ last.res = "TransferToAuthorFailed"
    /\ last.args.value > 0
    /\ deposit["buyer"] > 0
    /\ IsSome(offer_items[1])

\* The split computation as claim C3 states it, of a buy that has reached
\* its call of transfer_token.
C3_Exact(v, fee_bps, royalty_bps, l) ==
    /\ l.marketplace_fee = (v * fee_bps) \div BasisPoints
    /\ l.author_royalty = (v * royalty_bps) \div BasisPoints
    /\ l.seller_fee = v - l.marketplace_fee - l.author_royalty
    /\ l.marketplace_fee >= 0 /\ l.author_royalty >= 0 /\ l.seller_fee >= 0
    /\ l.marketplace_fee + l.author_royalty + l.seller_fee = v

\* C3: every buy that reaches the split computation with fee_bps and
\* royalty_bps at most max_fee_bps computes the two floors and the rest, all
\* three at least 0 and adding up to the attached payment.
C3_SplitIsExact ==
    pc = "in_transfer" =>
        LET royalty_bps ==
                Unwrap(registered_collections[frame.args.collection]).royalty
        IN (fee <= max_fee /\ royalty_bps <= max_fee) =>
               C3_Exact(frame.args.value, fee, royalty_bps, frame.locals)

\* What account a holds after a buy of caller with payment v that paid the
\* split l, given what it held before.
AfterBuy(a, before, caller, v, l, recipient) ==
    before
    - (IF a = caller THEN v ELSE 0)
    + (IF a = l.token_owner THEN l.seller_fee ELSE 0)
    + (IF a = recipient THEN l.marketplace_fee ELSE 0)
    + (IF a = l.royalty_receiver THEN l.author_royalty ELSE 0)
    + (IF a = Contract
       THEN v - l.seller_fee - l.marketplace_fee - l.author_royalty ELSE 0)

\* C4: on a listed token of a registered collection, buy by the owner fails
\* with AlreadyOwner; by another caller with a payment below the price it
\* fails with BadBuyValue; by another caller with a payment of at least the
\* price, the token transfer and the payments going through, it succeeds,
\* the caller owns the token, and the split of the whole payment (as the
\* split computation yields it) is paid out, the buyer's funds reduced by
\* the whole payment.
C4_BuyOutcome ==
    (last.op = "buy" /\ ~last.nested) =>
        LET p == last.pre
            c == last.args.collection
            k == <<last.args.collection, last.args.token>>
            v == last.args.value
        IN (IsSome(p.items[k]) /\ IsSome(p.registered_collections[c])
                /\ IsSome(p.token_owner[k])) =>
           LET tok == Unwrap(p.token_owner[k])
               price == Unwrap(p.items[k]).price
               royalty_bps == Unwrap(p.registered_collections[c]).royalty
               mf == bps_share(v, p.fee)
               ar == bps_share(v, royalty_bps)
               l == [token_owner |-> tok,
                     royalty_receiver |->
                         Unwrap(p.registered_collections[c]).royalty_receiver,
                     marketplace_fee |-> mf, author_royalty |-> ar,
                     seller_fee |-> seller_share(v, mf, ar)]
           IN /\ last.caller = tok => last.res = "AlreadyOwner"
              /\ (last.caller # tok /\ v < price) => last.res = "BadBuyValue"
              /\ (last.caller # tok /\ v >= price /\ last.args.out = "ok"
                    /\ p.token_approved[k] /\ IsSome(p.market_fee_recipient)) =>
                    /\ last.res = "Ok"
                    /\ token_owner[k] = Some(last.caller)
                    /\ \A a \in Accounts \cup {Contract} :
                          balance[a] =
                              AfterBuy(a, p.balance[a], last.caller, v, l,
                                       Unwrap(p.market_fee_recipient))

\* A buy succeeded with a payment above the listed price.
C4_Witness ==
    /\ last.op = "buy" /\ ~last.nested /\ last.res = "Ok"
    /\ last.args.value = 1200
    /\ Unwrap(last.pre.items[<<"c1", 1>>]).price = 1000
    /\ token_owner[<<"c1", 1>>] = Some("buyer")
    /\ balance["creator"] > last.pre.balance["creator"]

\* C5 as stated: register on a registered collection fails with
\* ContractAlreadyRegistered for every caller and every royalty.
C5_AlwaysAlreadyRegistered ==
    (last.op = "register"
        /\ IsSome(last.pre.registered_collections[last.args.collection])) =>
        /\ last.res = "ContractAlreadyRegistered"
        /\ registered_collections = last.pre.registered_collections

\* C5 (amended): register on a registered collection fails and changes
\* nothing; it fails with FeeTooHigh when royalty exceeds max_fee, else with
\* NotOwner when the caller is neither the marketplace owner nor the
\* collection's owner, else with ContractAlreadyRegistered.
C5_RegisteredStaysRegistered ==
    (last.op = "register"
        /\ IsSome(last.pre.registered_collections[last.args.collection])) =>
        /\ last.res =
              (IF last.args.royalty > last.pre.max_fee THEN "FeeTooHigh"
               ELSE IF last.caller # last.pre.owner
                         /\ last.caller # collection_owner[last.args.collection]
                    THEN "NotOwner"
               ELSE "ContractAlreadyRegistered")
        /\ State = last.pre

\* The marketplace owner registered a registered collection again.
C5_Witness ==
    /\ last.op = "register" /\ last.caller = "admin"
    /\ IsSome(last.pre.registered_collections[last.args.collection])
    /\ last.res = "ContractAlreadyRegistered"

\* C6: withdraw fails with BalanceInsufficient exactly when amount exceeds
\* the caller's escrow balance, which then stays; when it succeeds the
\* escrow balance is reduced by amount and the caller is paid amount.
C6_Withdraw ==
    last.op = "withdraw" =>
        LET p == last.pre
            a == last.caller
            n == last.args.amount
        IN /\ (last.res = "BalanceInsufficient") <=> (n > p.deposit[a])
           /\ last.res = "BalanceInsufficient" => deposit = p.deposit
           /\ last.res = "Ok" =>
                 /\ deposit[a] = p.deposit[a] - n
                 /\ balance[a] = p.balance[a] + n
                 /\ balance[Contract] = p.balance[Contract] - n

\* A withdrawal of part of the escrow balance succeeded.
C6_Witness ==
    /\ last.op = "withdraw" /\ last.res = "Ok"
    /\ last.args.amount = 500
    /\ last.pre.deposit[last.caller] = 650
    /\ deposit[last.caller] = 150

\* C7: a withdraw that passes the balance check and whose payment the host
\* refuses fails, and the escrow balances and all funds are as before.
C7_WithdrawAtomic ==
    (last.op = "withdraw"
        /\ last.args.amount <= last.pre.deposit[last.caller]
        /\ ~last.args.accepted) =>
        /\ last.res = "TransferToOwnerFailed"
        /\ State = last.pre

\* A withdraw of a covered amount failed at its payment.
C7_Witness ==
    /\ last.op = "withdraw" /\ last.res = "TransferToOwnerFailed"
    /\ last.args.amount = 500
    /\ deposit[last.caller] = 650

\* C8 as stated: make_offer fails with BalanceInsufficient exactly when
\* quantity * price_per_item exceeds the caller's escrow balance, and a
\* failed make_offer stores no offer.
C8_OfferNeedsEscrow ==
    last.op = "make_offer" =>
        /\ (last.res = "BalanceInsufficient") <=>
              (last.args.quantity * last.args.price_per_item
                   > last.pre.deposit[last.caller])
        /\ last.res # "Ok" => offer_items = last.pre.offer_items

\* C9 as stated: a successful make_offer returns the id under which it has
\* just stored the offer, above every id issued before.
C9_ReturnsNewId ==
    (last.op = "make_offer" /\ last.res = "Ok") =>
        /\ last.ret = Some(last_offer_id)
        /\ Unwrap(last.ret) > last.pre.last_offer_id
        /\ IsSome(offer_items[Unwrap(last.ret)])
        /\ ~IsSome(last.pre.offer_items[Unwrap(last.ret)])

\* C10: cancel_offer of a stored offer fails with NotOwner and leaves the
\* offers as they are when the caller is not the bidder, and succeeds and
\* removes that offer, and no other, when the caller is the bidder.
C10_CancelOffer ==
    (last.op = "cancel_offer"
        /\ IsSome(last.pre.offer_items[last.args.offer_id])) =>
        LET i == last.args.offer_id
            offer == Unwrap(last.pre.offer_items[i])
        IN IF last.caller # offer.bidder_id
           THEN last.res = "NotOwner" /\ offer_items = last.pre.offer_items
           ELSE /\ last.res = "Ok"
                /\ offer_items = [last.pre.offer_items EXCEPT ![i] = None]

\* The bidder cancelled an offer that its escrow balance no longer covers.
C10_Witness ==
    /\ last.op = "cancel_offer" /\ last.res = "Ok"
    /\ LET offer == Unwrap(last.pre.offer_items[last.args.offer_id])
       IN /\ offer.bidder_id = last.caller
          /\ deposit[last.caller] < offer.quantity * offer.price_per_item

\* C11: a successful buy leaves every listing as it was, the listing of the
\* bought token included (same price, same recorded seller); and a buy on a
\* key that has a listing is never rejected with ItemNotListedForSale.
C11_BuyKeepsListing ==
    (last.op = "buy" /\ ~last.nested) =>
        LET k == <<last.args.collection, last.args.token>> IN
        /\ last.res = "Ok" =>
              /\ items = last.pre.items
              /\ IsSome(items[k])
        /\ IsSome(last.pre.items[k]) => last.res # "ItemNotListedForSale"

\* After a purchase moved the token to the buyer, the former owner bought on
\* the listing that still names it as the seller, and got past the lookup of
\* the listing.
C11_Witness ==
    /\ last.op = "buy" /\ ~last.nested /\ last.caller = "creator"
    /\ last.pre.token_owner[<<"c1", 1>>] = Some("buyer")
    /\ last.pre.items[<<"c1", 1>>] = Some([owner |-> "creator", price |-> 1000])
    /\ last.args.value >= 1000
    /\ last.res = "UnableToTransferToken"

\* C12 as stated: a buy succeeds, and pays, only when neither product of the
\* split computation exceeds the Balance type and neither subtraction goes
\* below 0.
C12_OverflowFailsBuy ==
    (last.op = "buy" /\ ~last.nested /\ last.res = "Ok") =>
        LET p == last.pre
            v == last.args.value
            royalty_bps ==
                Unwrap(p.registered_collections[last.args.collection]).royalty
        IN /\ v * p.fee <= U128Max
           /\ v * royalty_bps <= U128Max
           /\ (v * p.fee) \div BasisPoints
                 + (v * royalty_bps) \div BasisPoints <= v

\* The last step was a message (or the first part of a buy), and the state
\* it started from.
HasBefore == last.op \notin {"none", "approve", "burn"}
Before == IF last.op = "buy_in_flight" THEN frame.pre ELSE last.pre

\* C13: every registered collection's royalty is at most max_fee; register
\* with a royalty above max_fee fails with FeeTooHigh and changes nothing;
\* and no message lowers max_fee, raises a registered collection's royalty or
\* removes a registration.
C13_RoyaltyWithinMaxFee ==
    /\ \A c \in Collections :
          IsSome(registered_collections[c]) =>
              Unwrap(registered_collections[c]).royalty <= max_fee
    /\ (last.op = "register" /\ last.args.royalty > last.pre.max_fee) =>
          /\ last.res = "FeeTooHigh"
          /\ State = last.pre
    /\ HasBefore =>
          /\ max_fee >= Before.max_fee
          /\ \A c \in Collections :
                IsSome(Before.registered_collections[c]) =>
                    /\ IsSome(registered_collections[c])
                    /\ Unwrap(registered_collections[c]).royalty
                          <= Unwrap(Before.registered_collections[c]).royalty

\* The collection's owner registered an unregistered collection with a
\* royalty above max_fee, and was refused.
C13_Witness ==
    /\ last.op = "register" /\ last.caller = "creator"
    /\ last.args.royalty = 2000 /\ max_fee = 1000
    /\ ~IsSome(last.pre.registered_collections[last.args.collection])
    /\ last.res = "FeeTooHigh"
    /\ ~IsSome(registered_collections[last.args.collection])

\* C14: every listing's collection is registered; a list that succeeds was
\* called by the token's owner, who had granted the marketplace the
\* allowance, writes the listing of that key with the caller as the seller
\* and the given price, and leaves the other listings; a list by a caller
\* who is not the owner, or without the allowance, or for an unregistered
\* collection, fails and leaves the listings as they were.
C14_Listing ==
    /\ \A k \in Keys :
          IsSome(items[k]) => IsSome(registered_collections[k[1]])
    /\ last.op = "list" =>
          LET p == last.pre
              k == <<last.args.collection, last.args.token>>
              allowed == /\ p.token_owner[k] = Some(last.caller)
                         /\ p.token_approved[k]
                         /\ IsSome(p.registered_collections[k[1]])
          IN /\ (last.res = "Ok") <=> allowed
             /\ last.res = "Ok" =>
                   items = [p.items EXCEPT ![k] =
                               Some([owner |-> last.caller,
                                     price |-> last.args.price])]
             /\ last.res # "Ok" => items = p.items

\* The buyer of a token listed it again at another price: the listing that
\* named the former owner as the seller was replaced.
C14_Witness ==
    /\ last.op = "list" /\ last.res = "Ok" /\ last.caller = "buyer"
    /\ last.pre.items[<<"c1", 1>>] = Some([owner |-> "creator", price |-> 1000])
    /\ items[<<"c1", 1>>] = Some([owner |-> "buyer", price |-> 800])

\* The funds of account a after the first n payments of a buy (to the
\* previous owner, to the fee recipient, to the royalty receiver), given the
\* funds b it held when the handler started.
AfterPayments(a, b, n, tok, recipient, receiver, sf, mf, ar) ==
    b + (IF n >= 1 /\ a = tok THEN sf ELSE 0)
      + (IF n >= 2 /\ a = recipient THEN mf ELSE 0)
      + (IF n >= 3 /\ a = receiver THEN ar ELSE 0)
      - (IF a = Contract
         THEN (IF n >= 1 THEN sf ELSE 0) + (IF n >= 2 THEN mf ELSE 0)
              + (IF n >= 3 THEN ar ELSE 0)
         ELSE 0)

\* The number of payments made when transfer_token returns res.
PaymentsMade(res) ==
    CASE res = "UnableToTransferToken" -> 0
      [] res = "TransferToOwnerFailed" -> 0
      [] res = "Trap" -> 1
      [] res = "TransferToMarketplaceFailed" -> 1
      [] res = "TransferToAuthorFailed" -> 2
      [] res = "Ok" -> 3

\* C15: in what a buy has done when it returns from transfer_token, the
\* token has moved unless the token transfer failed, in which case nothing
\* was paid; the payments made are a prefix of: seller_fee to the owner the
\* registry reported at the start, marketplace_fee to the fee recipient,
\* author_royalty to the royalty receiver; and with no fee recipient set the
\* call fails.
C15_OrderOfEffects ==
    (last.op = "buy" /\ ~last.nested /\ last.res \in BuyFailures \cup {"Ok"}) =>
        LET p == last.pre
            w == last.wrote
            c == last.args.collection
            k == <<last.args.collection, last.args.token>>
            v == last.args.value
            b == attach_value(p, last.caller, v).balance
            tok == Unwrap(p.token_owner[k])
            reg == Unwrap(p.registered_collections[c])
            mf == bps_share(v, p.fee)
            ar == bps_share(v, reg.royalty)
            sf == seller_share(v, mf, ar)
            n == PaymentsMade(last.res)
            recipient == IF IsSome(p.market_fee_recipient)
                         THEN Unwrap(p.market_fee_recipient) ELSE "none"
        IN /\ w.token_owner[k] =
                 (IF last.res = "UnableToTransferToken" THEN p.token_owner[k]
                  ELSE Some(last.caller))
           /\ \A a \in Accounts \cup {Contract} :
                 w.balance[a] = AfterPayments(a, b[a], n, tok, recipient,
                                              reg.royalty_receiver, sf, mf, ar)
           /\ ~IsSome(p.market_fee_recipient) => last.res # "Ok"
           /\ (last.res = "Trap") <=>
                 (~IsSome(p.market_fee_recipient) /\ n = 1)

\* A buy failed at the payment of the marketplace fee: the token had moved
\* and the previous owner alone had been paid.
C15_Witness ==
    /\ last.op = "buy" /\ ~last.nested
    /\ last.res = "TransferToMarketplaceFailed"
    /\ last.wrote.token_owner[<<"c1", 1>>] = Some("buyer")
    /\ last.wrote.balance["creator"] > last.pre.balance["creator"]
    /\ last.wrote.balance["admin"] = last.pre.balance["admin"]
    /\ token_owner[<<"c1", 1>>] = Some("creator")

\* C16 as stated: unlist fails with ItemNotListedForSale when the key has no
\* listing; with a listing it fails with NotOwner when the caller is not the
\* owner the registry reports, and otherwise removes the listing; a failed
\* unlist leaves the listings as they were.
C16_UnlistAsStated ==
    last.op = "unlist" =>
        LET p == last.pre
            k == <<last.args.collection, last.args.token>>
        IN IF ~IsSome(p.items[k])
           THEN last.res = "ItemNotListedForSale" /\ items = p.items
           ELSE IF p.token_owner[k] # Some(last.caller)
           THEN last.res = "NotOwner" /\ items = p.items
           ELSE last.res = "Ok" /\ items = [p.items EXCEPT ![k] = None]

\* C16 (amended): as stated, except that with a listing unlist fails with
\* TokenDoesNotExist when the registry reports no owner for the token, and
\* with NotOwner when it reports an owner other than the caller.
C16_Unlist ==
    last.op = "unlist" =>
        LET p == last.pre
            k == <<last.args.collection, last.args.token>>
        IN IF ~IsSome(p.items[k])
           THEN last.res = "ItemNotListedForSale" /\ State = p
           ELSE IF ~IsSome(p.token_owner[k])
           THEN last.res = "TokenDoesNotExist" /\ State = p
           ELSE IF p.token_owner[k] # Some(last.caller)
           THEN last.res = "NotOwner" /\ State = p
           ELSE /\ last.res = "Ok"
                /\ items = [p.items EXCEPT ![k] = None]
                /\ ~is_token_listed(State, k[1], k[2])

\* The buyer of a listed token removed the listing that named the former
\* owner as the seller.
C16_Witness ==
    /\ last.op = "unlist" /\ last.res = "Ok" /\ last.caller = "buyer"
    /\ last.pre.items[<<"c1", 1>>] = Some([owner |-> "creator", price |-> 1000])
    /\ items[<<"c1", 1>>] = None

\* What set_contract_metadata does once it is past every check of its
\* caller: NotRegisteredContract and no change for an unregistered
\* collection; otherwise the collection's metadata uri replaced and nothing
\* else changed.
MetadataReplaced ==
    LET p == last.pre
        c == last.args.collection
    IN IF ~IsSome(p.registered_collections[c])
       THEN last.res = "NotRegisteredContract" /\ State = p
       ELSE /\ last.res = "Ok"
            /\ State =
                  [p EXCEPT !.registered_collections[c] =
                      Some([Unwrap(p.registered_collections[c])
                               EXCEPT !.marketplace_ipfs = last.args.ipfs])]

\* C17 as stated: set_contract_metadata does the above for every caller.
C17_NoOwnerCheck ==
    last.op = "set_contract_metadata" => MetadataReplaced

\* C17 (amended): set_contract_metadata called by an account other than the
\* marketplace owner fails with CallerIsNotOwner and changes nothing; called
\* by the marketplace owner it does the above.
C17_OwnerOnlyMetadata ==
    last.op = "set_contract_metadata" =>
        IF last.caller # last.pre.owner
        THEN last.res = "CallerIsNotOwner" /\ State = last.pre
        ELSE MetadataReplaced

\* The marketplace owner replaced the metadata uri of a registered
\* collection while a listing, an escrow balance and an offer were stored.
C17_Witness ==
    /\ last.op = "set_contract_metadata" /\ last.res = "Ok"
    /\ last.caller = "admin"
    /\ last.args.collection = "c1"
    /\ last.pre.registered_collections["c1"] =
          Some([royalty_receiver |-> "creator", royalty |-> 500,
                marketplace_ipfs |-> "ipfs1"])
    /\ registered_collections["c1"] =
          Some([royalty_receiver |-> "creator", royalty |-> 500,
                marketplace_ipfs |-> "ipfs2"])
    /\ IsSome(items[<<"c1", 1>>])
    /\ deposit["buyer"] > 0
    /\ IsSome(offer_items[1])

\* C18 as stated: get_offer_active returns false when no offer is stored
\* under the id, and otherwise whether the escrow balance of the caller of
\* the query is at least quantity * price_per_item of the offer; it changes
\* no state.
C18_ActiveByCallerBalance ==
    last.op = "get_offer_active" =>
        LET offer == last.pre.offer_items[last.args.offer_id] IN
        /\ last.res = "Ok"
        /\ State = last.pre
        /\ last.ret =
              Some(IF ~IsSome(offer) THEN FALSE
                   ELSE last.pre.deposit[last.caller]
                          >= Unwrap(offer).quantity * Unwrap(offer).price_per_item)

\* C19 as stated: a successful make_offer leaves the escrow balances as they
\* were; make_offer succeeds whenever the caller's balance covers
\* quantity * price_per_item, whatever offers the balance backs already; a
\* withdrawal of the whole balance that the host pays succeeds and leaves the
\* offers stored; and get_offer_active queried by the bidder of a stored
\* offer tells whether the bidder's balance covers the offer now (false
\* after the withdrawal, true again after a deposit that covers it).
C19_OfferDoesNotReserve ==
    /\ (last.op = "make_offer" /\ last.res = "Ok") =>
          deposit = last.pre.deposit
    /\ (last.op = "make_offer"
          /\ last.args.quantity * last.args.price_per_item
                <= last.pre.deposit[last.caller]) =>
          last.res = "Ok"
    /\ (last.op = "withdraw" /\ last.args.accepted
          /\ last.args.amount = last.pre.deposit[last.caller]) =>
          /\ last.res = "Ok"
          /\ deposit[last.caller] = 0
          /\ offer_items = last.pre.offer_items
    /\ (last.op = "get_offer_active"
          /\ IsSome(last.pre.offer_items[last.args.offer_id])) =>
          LET offer == Unwrap(last.pre.offer_items[last.args.offer_id]) IN
          offer.bidder_id = last.caller =>
              last.ret = Some(deposit[last.caller]
                                >= offer.quantity * offer.price_per_item)

\* C20: no offer is stored under an id above last_offer_id, which starts at
\* 0; a successful make_offer raises last_offer_id by one and stores its
\* offer under the new value, where no offer was stored, leaving the other
\* offers; a failed make_offer and a cancel_offer leave last_offer_id as it
\* was.
C20_OfferIds ==
    /\ last_offer_id >= 0
    /\ \A i \in OfferIds : IsSome(offer_items[i]) => i <= last_offer_id
    /\ (last.op = "make_offer" /\ last.res = "Ok") =>
          /\ last_offer_id = last.pre.last_offer_id + 1
          /\ ~IsSome(last.pre.offer_items[last_offer_id])
          /\ IsSome(offer_items[last_offer_id])
          /\ \A i \in OfferIds :
                i # last_offer_id => offer_items[i] = last.pre.offer_items[i]
    /\ (last.op = "make_offer" /\ last.res # "Ok") =>
          /\ last_offer_id = last.pre.last_offer_id
          /\ offer_items = last.pre.offer_items
    /\ last.op = "cancel_offer" => last_offer_id = last.pre.last_offer_id

\* The second successful make_offer stored its offer under id 2 after the
\* offer under id 1 had been cancelled.
C20_Witness ==
    /\ last.op = "make_offer" /\ last.res = "Ok"
    /\ last_offer_id = 2
    /\ ~IsSome(last.pre.offer_items[1])
    /\ ~IsSome(offer_items[1])
    /\ IsSome(offer_items[2])

\* The sum of f over the accounts in S.
RECURSIVE SumOf(_, _)
SumOf(f, S) ==
    IF S = {} THEN 0
    ELSE LET a == CHOOSE x \in S : TRUE IN f[a] + SumOf(f, S \ {a})

\* C21: the marketplace's native funds are at least the sum of the escrow
\* balances, so that a withdrawal of an account's whole balance that the
\* host pays succeeds; and a successful buy pays out, as seller amount,
\* marketplace fee and royalty together, at most the payment attached to it,
\* leaving the marketplace's funds no lower than they were.
C21_FundsCoverEscrow ==
    /\ balance[Contract] >= SumOf(deposit, Accounts)
    /\ (last.op = "withdraw" /\ last.args.accepted
          /\ last.args.amount = last.pre.deposit[last.caller]) =>
          last.res = "Ok"
    /\ (last.op = "buy" /\ ~last.nested /\ last.res = "Ok") =>
          LET p == last.pre
              v == last.args.value
              reg == Unwrap(p.registered_collections[last.args.collection])
              mf == bps_share(v, p.fee)
              ar == bps_share(v, reg.royalty)
              sf == seller_share(v, mf, ar)
          IN /\ sf + mf + ar <= v
             /\ balance[Contract] = p.balance[Contract] + v - (sf + mf + ar)
             /\ balance[Contract] >= p.balance[Contract]

\* A buy succeeded at the highest fee rate and the highest royalty rate that
\* can be stored, while the marketplace held an escrow balance and an offer
\* was stored.
C21_Witness ==
    /\ last.op = "buy" /\ ~last.nested /\ last.res = "Ok"
    /\ last.pre.fee = max_fee
    /\ last.pre.registered_collections["c1"] =
          Some([royalty_receiver |-> "creator", royalty |-> max_fee,
                marketplace_ipfs |-> "ipfs1"])
    /\ last.args.value = 1000
    /\ deposit["buyer"] = 500
    /\ balance[Contract] = 500
    /\ IsSome(offer_items[1])

\* C22: a successful deposit raises the caller's escrow balance by the
\* attached amount, a successful withdraw lowers the caller's by amount, and
\* both leave the other accounts' balances; every other message, a failed
\* deposit or withdraw, and a step of the token registry leave every escrow
\* balance as it was.
C22_EscrowFrame ==
    IF last.op = "deposit" /\ last.res = "Ok"
    THEN deposit = [last.pre.deposit EXCEPT
                       ![last.caller] = @ + last.args.value]
    ELSE IF last.op = "withdraw" /\ last.res = "Ok"
    THEN deposit = [last.pre.deposit EXCEPT
                       ![last.caller] = @ - last.args.amount]
    ELSE HasBefore => deposit = Before.deposit

\* The seller of a token deposited its proceeds while the buyer held an
\* escrow balance that backs an offer; the buyer's balance stayed.
C22_Witness ==
    /\ last.op = "deposit" /\ last.res = "Ok" /\ last.caller = "creator"
    /\ last.pre.deposit = [a \in Accounts |-> IF a = "buyer" THEN 500 ELSE 0]
    /\ deposit = [a \in Accounts |-> IF a = "admin" THEN 0 ELSE 500]
    /\ IsSome(offer_items[1])
    /\ token_owner[<<"c1", 1>>] = Some("buyer")

====
